---- MODULE Spec2Model ----
(***************************************************************************)
(* Research orchestrator of genealogy-extractors: run_research with its    *)
(* dedup store (ProcessedTracker / search_log), the session daily-limit    *)
(* skip-set, the staging store (StagedFindings / staged_findings), the     *)
(* interactive review and the submission of approved findings.             *)
(***************************************************************************)
EXTENDS Integers, Sequences, FiniteSets, Bags, TLC

\* ---------------------------------------------------------------- bounds
MaxPeople == 2          \* people the roster iterator yields
MaxFindings == 2        \* rows the staging table holds in the review scenario
MaxWorkers == 3         \* threads fetching through the browser at once
MaxCallers == 2         \* threads calling the rate limiter at once
JournalCap == 3         \* entries the error journal keeps (1000 in the program)
MaxLogged == 5          \* log_error calls between two clears

\* ------------------------------------------------------- program values
NULL == "NULL"
People == 1..MaxPeople
Roster == [i \in 1..MaxPeople |-> i]
SOURCES == {"geneanet", "ancestry"}
SourceLists == {<<"geneanet", "ancestry">>, <<"geneanet">>}
CliMinScore == 80       \* default of --min-score
MinScores == {50, CliMinScore}
ErrorMessages == {"Timeout 30000ms exceeded"}
SemaphoreWidth == 2     \* threading.Semaphore(2)
MinDelay == 2           \* min_delay, in ticks of the clock
MaxRetries == 5         \* max_retries
min_delay == 1          \* min_delay, in seconds
backoff_factor == 2     \* backoff_factor
MaxAttempts == 3        \* max_attempts of _handle_bot_check

Pairs == People \X SOURCES

\* An optional integer: None, or Some(n).
None == <<>>
Some(n) == <<n>>

\* A person as the roster yields it: the fields run_research reads.
\* birth_year and estimated_birth_year are optional integers.
Person(birth_year, estimated_birth_year, name_surname) ==
    [birth_year |-> birth_year, estimated_birth_year |-> estimated_birth_year,
     name_surname |-> name_surname]

\* People with a surname and a modern birth year.
ModernPeople == {Person(Some(1850), None, "Smith")}

\* People of any period, with or without a surname.
AnyPeople ==
    {Person(b, e, n) : b \in {None, Some(-50), Some(0), Some(1100), Some(1850)},
                       e \in {None, Some(1100), Some(1850)},
                       n \in {"", "Smith"}}

NoPerson == Person(None, None, "")

\* Python truthiness of an optional integer.
Truthy(x) == x # None /\ x[1] # 0

\* "a or b" on optional integers.
Or(a, b) == IF Truthy(a) THEN a ELSE b

SeqToSet(q) == {q[i] : i \in DOMAIN q}

BagOfSeq(q) == [x \in SeqToSet(q) |-> Cardinality({i \in DOMAIN q : q[i] = x})]

\* A candidate record as an extractor returns it (name and match_score are
\* the fields the orchestrator reads).
Record(score) == [name |-> "match", match_score |-> score]

\* The record lists an extraction returns in the model: none, one at the lower
\* threshold, one at the lower threshold followed by one above both.
RecordLists == {<<>>, <<Record(50)>>, <<Record(50), Record(90)>>}

\* What one live fetch of a source can end with: a payload (with or without
\* a result-present indicator, and the records the source's parser gets out
\* of it), a parser exception, a transport error, a bot check, a daily limit.
\* A payload whose parser finds records shows them: only an empty parse comes
\* with or without the result-present indicator.
Payloads ==
    {c \in [indicator : BOOLEAN, parsed : RecordLists] :
        c.parsed # <<>> => c.indicator}

FetchOutcomes ==
    {[kind |-> "content", indicator |-> c.indicator, parsed |-> c.parsed,
      msg |-> NULL] : c \in Payloads}
    \cup {[kind |-> k, indicator |-> FALSE, parsed |-> <<>>, msg |-> m] :
        k \in {"fetch_error", "extractor_error"}, m \in ErrorMessages}
    \cup {[kind |-> k, indicator |-> FALSE, parsed |-> <<>>, msg |-> k] :
        k \in {"bot_check", "daily_limit"}}

\* The outcomes that differ in what the dedup store sees.
BasicOutcomes ==
    {o \in FetchOutcomes :
        /\ o.kind # "extractor_error"
        /\ o.kind = "content" => o.parsed = <<Record(50)>>}

VARIABLES
    search_log,             \* table search_log: rows keyed by (person_id, source_name)
    staged,                 \* table staged_findings: sequence of rows, id = position
    cache,                  \* ProcessedTracker._cache as a set of (person, source)
    cache_loaded,           \* ProcessedTracker._cache_loaded
    daily_limit_sources,    \* research._daily_limit_sources
    run,                    \* the run_research call in progress
    result,                 \* per-source result dicts of the person being searched
    hist,                   \* history of the run: what was fetched and how it ended
    prev,                   \* what is kept of the previous run when a run is repeated
    review,                 \* the review_findings sessions
    submit,                 \* the submit_approved call
    fetcher,                \* the threads fetching through the browser
    tabs,                   \* the tabs open in Chrome
    _browser_semaphore,     \* cdp_client._browser_semaphore (free slots)
    _active_fetches,        \* cdp_client._active_fetches
    cleanup_recent,         \* less than _cleanup_interval since _last_cleanup_time
    caller,                 \* the threads calling the rate limiter
    lock,                   \* RateLimiter.lock: the thread holding it, 0 when free
    elapsed,                \* per source, now - last_request_time, up to min_delay
    request_counts,         \* RateLimiter.request_counts
    stamps,                 \* history: per source, gap before the last stamp, waits returned
    scored,                 \* a record and search parameters, and the score computed
    errors,                 \* ErrorTracker.errors
    error_counts,           \* ErrorTracker.error_counts
    log_file,               \* error_log.json as last saved
    tracker_lock,           \* ErrorTracker.lock: the thread holding it, 0 when free
    logging,                \* per thread, the entry its log_error call is adding
    arrivals,               \* history: the entries logged since the last clear
    challenge,              \* a page under _handle_bot_check: what it shows, the passes made
    backoff,                \* a failed attempt of retry_with_backoff and the sleep computed for it
    classified,             \* an exception message and the error type given to it
    form,                   \* a FreeBMD form fetch: its parameters, submissions, tab and result
    last_call               \* history: the last call made on the ProcessedTracker

\* The orchestrator and its stores.
core == <<search_log, staged, cache, cache_loaded, daily_limit_sources,
          run, result, hist, prev, review, submit>>

\* The browser pool.
cdp == <<fetcher, tabs, _browser_semaphore, _active_fetches, cleanup_recent>>

\* The rate limiter.
limiter == <<caller, lock, elapsed, request_counts, stamps>>

\* The match scoring.
scoring == <<scored>>

\* The error journal.
journal == <<errors, error_counts, log_file, tracker_lock, logging, arrivals>>

\* The bot check handling.
botcheck == <<challenge>>

\* The backoff computation.
backing == <<backoff>>

\* The error type classification.
classifying == <<classified>>

\* The FreeBMD form fetch.
freebmd == <<form>>

\* The calls made on the dedup store.
tracking == <<last_call>>

\* Everything but the orchestrator, its stores and the history of the
\* previous run.
aside == <<cdp, limiter, scoring, journal, botcheck, backing, classifying,
           freebmd, tracking>>

vars == <<core, aside>>

\* ------------------------------------------------------------ extractors
\* BaseRecordExtractor.extract_records of the source's extractor: the records
\* its parser gets out of the payload.
extract_records(content) == content.parsed

\* BaseRecordExtractor._has_results_indicator
_has_results_indicator(content) == content.indicator

\* BaseRecordExtractor._create_fallback_record
_create_fallback_record(error_type) == <<[name |-> error_type, match_score |-> 50]>>

\* BaseRecordExtractor.extract_with_fallback
extract_with_fallback(content) ==
    IF content.kind = "extractor_error"
    THEN _create_fallback_record("PARSE_ERROR")
    ELSE IF Len(extract_records(content)) = 0 /\ _has_results_indicator(content)
         THEN _create_fallback_record("PARSE_FAILED")
         ELSE extract_records(content)

\* extract_from_source with the bot_check flag left out of the result dict.
extract_from_source_noflag(o) ==
    [success |-> o.kind = "content", records |-> extract_records(o),
     error |-> o.msg, bot_check |-> FALSE, daily_limit |-> o.kind = "daily_limit"]

\* extract.extract_from_source, as a function of what the live fetch ends
\* with: the result dict it returns (it catches every exception itself).
extract_from_source(o) ==
    CASE o.kind = "content" ->
            [success |-> TRUE, records |-> extract_records(o), error |-> NULL,
             bot_check |-> FALSE, daily_limit |-> FALSE]
      [] o.kind = "bot_check" ->
            [success |-> FALSE, records |-> <<>>, error |-> o.msg,
             bot_check |-> TRUE, daily_limit |-> FALSE]
      [] o.kind = "daily_limit" ->
            [success |-> FALSE, records |-> <<>>, error |-> o.msg,
             bot_check |-> FALSE, daily_limit |-> TRUE]
      [] OTHER ->
            [success |-> FALSE, records |-> <<>>, error |-> o.msg,
             bot_check |-> FALSE, daily_limit |-> FALSE]

NoResult == [success |-> FALSE, records |-> <<>>, error |-> "none",
             bot_check |-> FALSE, daily_limit |-> FALSE]
NoOutcome == [kind |-> "none", indicator |-> FALSE, parsed |-> <<>>, msg |-> NULL]

\* ----------------------------------------------------------- dedup store
\* _ensure_cache without the load from search_log.
_ensure_cache_noload == cache

\* ProcessedTracker._ensure_cache: the cache after loading search_log into it
\* (a no-op once loaded).
_ensure_cache ==
    IF cache_loaded THEN cache
    ELSE cache \cup {<<r.person_id, r.source_name>> : r \in search_log}

\* ProcessedTracker.is_processed (on a loaded cache)
is_processed(person_id, source) == <<person_id, source>> \in _ensure_cache

\* ProcessedTracker.get_unprocessed_sources
get_unprocessed_sources(person_id, all_sources) ==
    SelectSeq(all_sources, LAMBDA s : <<person_id, s>> \notin _ensure_cache)

\* The upsert of ProcessedTracker.mark_processed on table search_log.
Upsert(log, person_id, source, result_count, had_error, error_message) ==
    {r \in log : ~(r.person_id = person_id /\ r.source_name = source)}
    \cup {[person_id |-> person_id, source_name |-> source,
           result_count |-> result_count, had_error |-> had_error,
           error_message |-> error_message]}

\* mark_processed with the cache updated before the write, whatever it gives.
mark_processed_cache_first(person_id, source, result_count, had_error, error_message, db_ok) ==
    /\ search_log' = IF db_ok
                     THEN Upsert(search_log, person_id, source, result_count,
                                 had_error, error_message)
                     ELSE search_log
    /\ cache' = cache \cup {<<person_id, source>>}

\* ProcessedTracker.mark_processed; db_ok = FALSE is a failed database write,
\* which the method catches and prints.
mark_processed(person_id, source, result_count, had_error, error_message, db_ok) ==
    IF db_ok
    THEN /\ search_log' = Upsert(search_log, person_id, source, result_count,
                                 had_error, error_message)
         /\ cache' = cache \cup {<<person_id, source>>}
    ELSE UNCHANGED <<search_log, cache>>

\* --------------------------------------------------------- staging store
\* StagedFindings.add_finding: INSERT with status 'pending', autoincrement id.
add_finding(st, person_id, source_name, extracted_record, match_score) ==
    Append(st, [id |-> Len(st) + 1, person_id |-> person_id,
                source_name |-> source_name, name |-> extracted_record.name,
                match_score |-> match_score, status |-> "pending",
                reviewed_at |-> 0, notes |-> NULL])

\* The staging loop with "score > min_score" for "score >= min_score".
RECURSIVE StagingLoop_strict(_, _, _, _, _)
StagingLoop_strict(st, person_id, source_key, records, min_score) ==
    IF records = <<>> THEN st
    ELSE LET record == Head(records)
             score == record.match_score
         IN StagingLoop_strict(IF score > min_score
                               THEN add_finding(st, person_id, source_key, record, score)
                               ELSE st,
                               person_id, source_key, Tail(records), min_score)

\* The staging loop of run_research over one source's records.
RECURSIVE StagingLoop(_, _, _, _, _)
StagingLoop(st, person_id, source_key, records, min_score) ==
    IF records = <<>> THEN st
    ELSE LET record == Head(records)
             score == record.match_score
         IN StagingLoop(IF score >= min_score
                        THEN add_finding(st, person_id, source_key, record, score)
                        ELSE st,
                        person_id, source_key, Tail(records), min_score)

\* ------------------------------------------------------------ run_research
NoRun == [pc |-> "idle", parallel |-> FALSE, min_score |-> 0, source_keys |-> <<>>,
          limit |-> 0, processed |-> 0, person_id |-> 0, person |-> NoPerson,
          unprocessed_sources |-> <<>>, pending |-> {}, results |-> <<>>, i |-> 0,
          exit_code |-> None]

NoHist == [fetched |-> {}, bot |-> {}, limit_hit |-> {}, completed |-> {},
           nfetch |-> [s \in SOURCES |-> 0],
           outcome |-> [s \in SOURCES |-> NoOutcome],
           errored |-> FALSE]

NoResults == [s \in SOURCES |-> NoResult]

NoPrev == [rerun |-> FALSE, args |-> [parallel |-> FALSE, min_score |-> 0,
                                      source_keys |-> <<>>, limit |-> 0],
           completed |-> {}, findings |-> EmptyBag,
           world |-> [pr \in Pairs |-> NoOutcome]]

Reviewers == {"A", "B"}
NoReview == [pc |-> "idle", pending |-> <<>>, i |-> 0]
NoSubmit == [pc |-> "idle", approved |-> <<>>, i |-> 0, sent |-> <<>>,
             submitted |-> 0, errors |-> 0]

\* The fetching threads; a thread's tab has the thread's number as its id.
Workers == 1..MaxWorkers
NoFetch == [pc |-> "idle", fn |-> "none", ended |-> "none"]

\* The errors fn can raise: a requests HTTPError or not, with a 429 response
\* or not, with a message holding '429', 'too many' or 'rate limit' or not.
\* Only an HTTPError carries a response.
FnErrors ==
    {e \in [raised : {TRUE}, http : BOOLEAN, status_429 : BOOLEAN,
            message_match : BOOLEAN] :
        e.status_429 => e.http}

\* fn returning its result, and no exception caught yet.
NoError == [raised |-> FALSE, http |-> FALSE, status_429 |-> FALSE,
            message_match |-> FALSE]

\* What calculate_match_score reads of a record and the search parameters.
\* The text comparisons are given by the branch they take: a text absent
\* (empty or None) on either side, the exact substring match, the close
\* Levenshtein match, the partial match (surname only), or none of them.
\* The years are optional integers.
TextMatches == {"absent", "exact", "close", "unlike"}
SurnameMatches == TextMatches \cup {"partial"}
GivenMatches == TextMatches \cup {"initial"}
MatchInputs ==
    [surname : SurnameMatches, given_name : GivenMatches, location : TextMatches,
     birth_year : {None, Some(0), Some(1850)},
     year_min : {None, Some(1840)},
     record_birth_year : {None, Some(1850), Some(1849), Some(1846), Some(1841),
                          Some(1835), Some(1800)},
     death_year : BOOLEAN, death_place : BOOLEAN, parents : BOOLEAN, url : BOOLEAN]
NoMatch == [pc |-> "idle",
            input |-> [surname |-> "absent", given_name |-> "absent",
                       location |-> "absent", birth_year |-> None, year_min |-> None,
                       record_birth_year |-> None, death_year |-> FALSE,
                       death_place |-> FALSE, parents |-> FALSE, url |-> FALSE],
            score |-> None]

\* The keys of error_counts and the entries of the journal; seq stands for
\* the timestamp and message that tell two entries of one key apart.
\* A key "source:error_type" is written as the pair of its parts.
ErrorTypes == {"RATE_LIMIT", "TIMEOUT", "NAVIGATION", "NOT_FOUND", "UNKNOWN",
               "BOT_CHECK", "DAILY_LIMIT"}
LoggedKeys == {<<"freebmd", "PLAYWRIGHT_ERROR">>, <<"geneanet", "TIMEOUT">>}
ErrorKeys == LoggedKeys \cup (SOURCES \X ErrorTypes)
NoEntry == [key |-> <<"none", "none">>, seq |-> 0]

\* The threads calling the rate limiter, and the sources they call it for.
Callers == 1..MaxCallers
LimitedSources == {"wikitree", "default"}
NoCall == [pc |-> "idle", fn |-> "none", source |-> "default", wait_time |-> 0,
           attempt |-> 0, waits |-> 0, calls |-> 0, sleeps |-> 0,
           outcome |-> "none", last_exception |-> NoError]

\* What a page shows of a bot check: a blocking overlay (absent, in the page
\* but hidden, or visible), a CAPTCHA iframe (absent, visible but no larger
\* than 200x100, or visible and larger), a visible checkbox to click or none.
Pages == [overlay : {"absent", "hidden", "visible"},
          iframe : {"absent", "small", "large"},
          checkbox : BOOLEAN]
NoChallenge == [pc |-> "idle", attempt |-> 0, clicks |-> 0,
                page |-> [overlay |-> "absent", iframe |-> "absent", checkbox |-> FALSE],
                outcome |-> "none"]

\* The Retry-After header of a 429 response: absent (headers.get gives None,
\* written "" here), a date, or a number of seconds.
NumericRetryAfters == {"0", "1", "2", "5", "30", "60", "120", "3600"}
RetryAfters == {"", "Wed, 21 Oct 2026 07:28:00 GMT"} \cup NumericRetryAfters
NoBackoff == [pc |-> "idle", attempt |-> 0, http |-> FALSE, retry_after |-> "",
              wait_time |-> 0]

\* An exception message, as the set of the phrases it holds among those the
\* classification looks for (letter case aside).
Phrases == {"429", "rate limit", "too many", "timeout", "navigation", "404"}
Messages == SUBSET Phrases
NoClassified == [pc |-> "idle", error_msg |-> {}, error_type |-> "none"]

\* The parameters a FreeBMD form fetch reads, birth_year_end being optional.
FormParams == [given_name : {"", "John"},
               birth_year : {1837, 1850, 1880, 1900},
               birth_year_end : {None, Some(0), Some(10)}]
NoForm == [pc |-> "idle",
           params |-> [given_name |-> "", birth_year |-> 1837, birth_year_end |-> None],
           submitted |-> <<>>, markers |-> <<>>, tab |-> "none",
           returned |-> "none", raised |-> FALSE]

NoTrackerCall == [op |-> "none", pair |-> <<0, "none">>, db_ok |-> TRUE,
                  was_processed |-> FALSE]

Init ==
    /\ search_log = {}
    /\ staged = <<>>
    /\ cache = {}
    /\ cache_loaded = FALSE
    /\ daily_limit_sources = {}
    /\ run = NoRun
    /\ result = NoResults
    /\ hist = NoHist
    /\ prev = NoPrev
    /\ review = [r \in Reviewers |-> NoReview]
    /\ submit = NoSubmit
    /\ fetcher = [w \in Workers |-> NoFetch]
    /\ tabs = {[id |-> 0, url |-> "about:blank"]}
    /\ _browser_semaphore = SemaphoreWidth
    /\ _active_fetches = 0
    /\ cleanup_recent = FALSE
    /\ caller = [w \in Callers |-> NoCall]
    /\ lock = 0
    /\ elapsed = [s \in LimitedSources |-> MinDelay]
    /\ request_counts = [s \in LimitedSources |-> 0]
    /\ stamps = [s \in LimitedSources |-> [gap |-> MinDelay, returned |-> 0]]
    /\ scored = NoMatch
    /\ errors = <<>>
    /\ error_counts = [k \in ErrorKeys |-> 0]
    /\ log_file = [errors |-> <<>>, counts |-> [k \in ErrorKeys |-> 0]]
    /\ tracker_lock = 0
    /\ logging = [w \in Workers |-> NoEntry]
    /\ arrivals = <<>>
    /\ challenge = NoChallenge
    /\ backoff = NoBackoff
    /\ classified = NoClassified
    /\ form = NoForm
    /\ last_call = NoTrackerCall

\* The history a fetch of source s for the current person leaves, ending with
\* outcome o; marked = the tracker row was written.
Fetched(s, o, marked) ==
    LET pair == <<run.person_id, s>>
    IN [hist EXCEPT
          !.fetched = @ \cup {pair},
          !.bot = IF o.kind = "bot_check" THEN @ \cup {pair} ELSE @,
          !.limit_hit = IF o.kind = "daily_limit" THEN @ \cup {pair} ELSE @,
          !.completed = IF marked THEN @ \cup {pair} ELSE @,
          !.nfetch[s] = @ + 1,
          !.outcome[s] = o,
          !.errored = @ \/ o.kind \in {"fetch_error", "extractor_error"}]

\* run_research up to the per-person loop: the arguments of the call.
\* limit = 0 is "no limit" (None).
RunArgs == [parallel : BOOLEAN, min_score : MinScores, source_keys : SourceLists,
            limit : {0, 1}]

StartRun(Args) ==
    /\ run.pc = "idle"
    /\ \E a \in Args :
          run' = [NoRun EXCEPT !.pc = "loop", !.parallel = a.parallel,
                               !.min_score = a.min_score,
                               !.source_keys = a.source_keys, !.limit = a.limit]
    /\ UNCHANGED <<search_log, staged, cache, cache_loaded, daily_limit_sources,
                   result, hist, review, submit>>

\* api_client.person_to_search_params (the field the skip reads).
person_to_search_params(person) == [surname |-> person.name_surname]

\* One pass of "for person in get_all_people_iterator()" up to the branch on
\* parallel: the surname and birth-year skips, the dedup filter, the
\* daily-limit filter, the skip when nothing is left.
NextPerson(Persons) ==
    /\ run.pc = "loop"
    /\ ~(run.limit # 0 /\ run.processed >= run.limit)
    /\ run.processed < Len(Roster)
    /\ \E person \in Persons :
       LET person_id == Roster[run.processed + 1]
           params == person_to_search_params(person)
           birth_year == Or(person.birth_year, person.estimated_birth_year)
           skip == \/ params.surname = ""
                   \/ Truthy(birth_year) /\ birth_year[1] < 1200
           unprocessed == get_unprocessed_sources(person_id, run.source_keys)
           unprocessed_sources ==
               IF skip THEN <<>>
               ELSE IF daily_limit_sources # {}
                    THEN SelectSeq(unprocessed, LAMBDA s : s \notin daily_limit_sources)
                    ELSE unprocessed
       IN /\ cache' = IF skip THEN cache ELSE _ensure_cache
          /\ cache_loaded' = IF skip THEN cache_loaded ELSE TRUE
          /\ run' = [run EXCEPT
                       !.processed = @ + 1,
                       !.person_id = person_id,
                       !.person = person,
                       !.unprocessed_sources = unprocessed_sources,
                       !.pending = IF run.parallel /\ Len(unprocessed_sources) > 1
                                   THEN SeqToSet(unprocessed_sources) ELSE {},
                       !.results = <<>>,
                       !.i = 1,
                       !.pc = IF unprocessed_sources = <<>> THEN "loop"
                              ELSE IF run.parallel /\ Len(unprocessed_sources) > 1
                                   THEN "parallel" ELSE "seq_fetch"]
    /\ result' = NoResults
    /\ hist' = [hist EXCEPT !.nfetch = NoHist.nfetch, !.outcome = NoHist.outcome]
    /\ UNCHANGED <<search_log, staged, daily_limit_sources, review, submit>>

\* The loop ends (roster exhausted or limit reached): final summary, return
\* to the command line dispatch, which has nothing left to do: the interpreter
\* exits with code 0.
FinishRun ==
    /\ run.pc = "loop"
    /\ \/ run.limit # 0 /\ run.processed >= run.limit
       \/ run.processed >= Len(Roster)
    /\ run' = [run EXCEPT !.pc = "done", !.exit_code = Some(0)]
    /\ UNCHANGED <<search_log, staged, cache, cache_loaded, daily_limit_sources,
                   result, hist, review, submit>>

\* research.search_source, one worker of search_all_sources_parallel.
search_source(source_key, Outcomes, DbOk) ==
    /\ run.pc = "parallel"
    /\ source_key \in run.pending
    /\ \E o \in Outcomes, db_ok \in DbOk :
          LET res == extract_from_source(o)
              marks == ~res.bot_check /\ ~res.daily_limit
          IN /\ IF res.bot_check
                THEN UNCHANGED <<search_log, cache, daily_limit_sources>>
                ELSE IF res.daily_limit
                     THEN /\ daily_limit_sources' = daily_limit_sources \cup {source_key}
                          /\ UNCHANGED <<search_log, cache>>
                     ELSE /\ mark_processed(run.person_id, source_key, 0, FALSE, NULL, db_ok)
                          /\ UNCHANGED daily_limit_sources
             /\ result' = [result EXCEPT ![source_key] = res]
             /\ hist' = Fetched(source_key, o, marks /\ db_ok)
    /\ run' = [run EXCEPT
                 !.pending = @ \ {source_key},
                 !.results = Append(@, source_key),
                 !.pc = IF run.pending = {source_key} THEN "collect" ELSE "parallel"]
    /\ UNCHANGED <<staged, cache_loaded, review, submit>>

\* The loop over results.items() with "break" for "continue" on a failed result.
StageResult_break ==
    /\ run.pc = "collect"
    /\ LET source_key == run.results[run.i]
           res == result[source_key]
       IN /\ staged' = IF res.success
                       THEN StagingLoop(staged, run.person_id, source_key,
                                        res.records, run.min_score)
                       ELSE staged
          /\ run' = [run EXCEPT
                       !.i = @ + 1,
                       !.pc = IF run.i = Len(run.results) \/ ~res.success
                              THEN "loop" ELSE "collect"]
    /\ UNCHANGED <<search_log, cache, cache_loaded, daily_limit_sources, result, hist,
                   review, submit>>

\* The parallel branch's loop over results.items(): one source per step.
StageResult ==
    /\ run.pc = "collect"
    /\ LET source_key == run.results[run.i]
           res == result[source_key]
       IN staged' = IF res.success
                    THEN StagingLoop(staged, run.person_id, source_key, res.records,
                                     run.min_score)
                    ELSE staged
    /\ run' = [run EXCEPT
                 !.i = @ + 1,
                 !.pc = IF run.i = Len(run.results) THEN "loop" ELSE "collect"]
    /\ UNCHANGED <<search_log, cache, cache_loaded, daily_limit_sources, result, hist,
                   review, submit>>

\* The sequential branch for one source, from extract_from_source to the
\* "continue"s and mark_processed.
SeqSearch(Outcomes, DbOk) ==
    /\ run.pc = "seq_fetch"
    /\ LET source_key == run.unprocessed_sources[run.i]
       IN \E o \in Outcomes, db_ok \in DbOk :
          LET res == extract_from_source(o)
              marks == ~res.bot_check /\ ~res.daily_limit
              stage == marks /\ res.success /\ res.records # <<>>
          IN /\ IF marks
                THEN mark_processed(run.person_id, source_key, 0, FALSE, NULL, db_ok)
                ELSE UNCHANGED <<search_log, cache>>
             /\ result' = [result EXCEPT ![source_key] = res]
             /\ hist' = Fetched(source_key, o, marks /\ db_ok)
             /\ run' = [run EXCEPT
                          !.i = IF stage THEN @ ELSE @ + 1,
                          !.pc = IF stage THEN "seq_stage"
                                 ELSE IF run.i = Len(run.unprocessed_sources)
                                      THEN "loop" ELSE "seq_fetch"]
    /\ UNCHANGED <<staged, cache_loaded, daily_limit_sources, review, submit>>

\* The sequential branch's staging loop for the source just searched.
SeqStage ==
    /\ run.pc = "seq_stage"
    /\ LET source_key == run.unprocessed_sources[run.i]
       IN staged' = StagingLoop(staged, run.person_id, source_key,
                                result[source_key].records, run.min_score)
    /\ run' = [run EXCEPT
                 !.i = @ + 1,
                 !.pc = IF run.i = Len(run.unprocessed_sources)
                        THEN "loop" ELSE "seq_fetch"]
    /\ UNCHANGED <<search_log, cache, cache_loaded, daily_limit_sources, result, hist,
                   review, submit>>

\* One run of run_research on an empty database whose writes succeed, the
\* sources ending in any of FetchOutcomes.
Next ==
    \/ StartRun(RunArgs) /\ UNCHANGED <<prev, aside>>
    \/ NextPerson(ModernPeople) /\ UNCHANGED <<prev, aside>>
    \/ FinishRun /\ UNCHANGED <<prev, aside>>
    \/ \E s \in SOURCES : search_source(s, FetchOutcomes, {TRUE}) /\ UNCHANGED <<prev, aside>>
    \/ StageResult /\ UNCHANGED <<prev, aside>>
    \/ SeqSearch(FetchOutcomes, {TRUE}) /\ UNCHANGED <<prev, aside>>
    \/ SeqStage /\ UNCHANGED <<prev, aside>>

Spec == Init /\ [][Next]_vars

\* ------------------------------------------------------- repeated runs
ArgsOf(r) == [parallel |-> r.parallel, min_score |-> r.min_score,
              source_keys |-> r.source_keys, limit |-> r.limit]

\* The process of a finished run exits and a new one starts: the module
\* globals (_tracker, _daily_limit_sources) are fresh, the database is kept.
Restart ==
    /\ run.pc = "done"
    /\ ~prev.rerun
    /\ prev' = [prev EXCEPT !.rerun = TRUE, !.args = ArgsOf(run),
                            !.completed = hist.completed]
    /\ cache' = {}
    /\ cache_loaded' = FALSE
    /\ daily_limit_sources' = {}
    /\ run' = NoRun
    /\ result' = NoResults
    /\ hist' = NoHist
    /\ UNCHANGED <<search_log, staged, review, submit>>

\* The second run has the arguments of the first (and the same roster); the
\* first is started with the command line's default --min-score.
RerunArgs ==
    IF prev.rerun THEN {prev.args}
    ELSE {a \in RunArgs : a.min_score = CliMinScore}

\* Two consecutive runs of run_research on one database whose tracker writes
\* may fail.
NextRerun ==
    \/ StartRun(RerunArgs) /\ UNCHANGED <<prev, aside>>
    \/ NextPerson(ModernPeople) /\ UNCHANGED <<prev, aside>>
    \/ FinishRun /\ UNCHANGED <<prev, aside>>
    \/ \E s \in SOURCES : search_source(s, BasicOutcomes, BOOLEAN) /\ UNCHANGED <<prev, aside>>
    \/ StageResult /\ UNCHANGED <<prev, aside>>
    \/ SeqSearch(BasicOutcomes, BOOLEAN) /\ UNCHANGED <<prev, aside>>
    \/ SeqStage /\ UNCHANGED <<prev, aside>>
    \/ Restart /\ UNCHANGED aside

SpecRerun == Init /\ [][NextRerun]_vars

\* All staged findings as a bag of (person, source, name, match_score).
AllFindings ==
    BagOfSeq([i \in DOMAIN staged |->
                 [person_id |-> staged[i].person_id,
                  source_name |-> staged[i].source_name,
                  name |-> staged[i].name, match_score |-> staged[i].match_score]])

\* The same run is repeated in the other mode on a fresh database, the
\* sources answering as they did: the findings of the first run are kept for
\* comparison.
ResetStores ==
    /\ run.pc = "done"
    /\ ~prev.rerun
    /\ prev' = [prev EXCEPT !.rerun = TRUE, !.args = ArgsOf(run),
                            !.completed = hist.completed,
                            !.findings = AllFindings]
    /\ search_log' = {}
    /\ staged' = <<>>
    /\ cache' = {}
    /\ cache_loaded' = FALSE
    /\ daily_limit_sources' = {}
    /\ run' = NoRun
    /\ result' = NoResults
    /\ hist' = NoHist
    /\ UNCHANGED <<review, submit>>

\* First run sequential, second run parallel, same other arguments.
EquivArgs ==
    {a \in RunArgs :
        IF prev.rerun
        THEN a = [prev.args EXCEPT !.parallel = TRUE]
        ELSE ~a.parallel}

\* The outcome of a (person, source) fetch is fixed once it has been seen.
WorldOutcomes(s) ==
    IF prev.world[<<run.person_id, s>>] = NoOutcome
    THEN FetchOutcomes
    ELSE {prev.world[<<run.person_id, s>>]}

RecordWorld ==
    prev' = [prev EXCEPT !.world =
                [pr \in Pairs |->
                    IF pr \in hist'.fetched \ hist.fetched
                    THEN hist'.outcome[pr[2]] ELSE prev.world[pr]]]

NextEquiv ==
    \/ StartRun(EquivArgs) /\ UNCHANGED <<prev, aside>>
    \/ NextPerson(ModernPeople) /\ UNCHANGED <<prev, aside>>
    \/ FinishRun /\ UNCHANGED <<prev, aside>>
    \/ \E s \in SOURCES :
          search_source(s, WorldOutcomes(s), {TRUE}) /\ RecordWorld /\ UNCHANGED aside
    \/ StageResult /\ UNCHANGED <<prev, aside>>
    \/ SeqSearch(WorldOutcomes(run.unprocessed_sources[run.i]), {TRUE}) /\ RecordWorld
          /\ UNCHANGED aside
    \/ SeqStage /\ UNCHANGED <<prev, aside>>
    \/ ResetStores /\ UNCHANGED aside

SpecEquiv == Init /\ [][NextEquiv]_vars

\* "research.py --reset" between two runs with the same arguments: the tracker
\* is cleared (ProcessedTracker.clear), the staging store is left as it is,
\* and the next run is a new process. The findings of the first run are kept
\* for comparison.
ResetTracker ==
    /\ run.pc = "done"
    /\ ~prev.rerun
    /\ prev' = [prev EXCEPT !.rerun = TRUE, !.args = ArgsOf(run),
                            !.completed = hist.completed,
                            !.findings = AllFindings]
    /\ search_log' = {}
    /\ cache' = {}
    /\ cache_loaded' = FALSE
    /\ daily_limit_sources' = {}
    /\ run' = NoRun
    /\ result' = NoResults
    /\ hist' = NoHist
    /\ UNCHANGED <<staged, review, submit>>

\* A run, a reset of the tracker, and the same run again, the sources
\* answering as they did.
NextReset ==
    \/ StartRun(RerunArgs) /\ UNCHANGED <<prev, aside>>
    \/ NextPerson(ModernPeople) /\ UNCHANGED <<prev, aside>>
    \/ FinishRun /\ UNCHANGED <<prev, aside>>
    \/ \E s \in SOURCES :
          search_source(s, WorldOutcomes(s), {TRUE}) /\ RecordWorld /\ UNCHANGED aside
    \/ StageResult /\ UNCHANGED <<prev, aside>>
    \/ SeqSearch(WorldOutcomes(run.unprocessed_sources[run.i]), {TRUE}) /\ RecordWorld
          /\ UNCHANGED aside
    \/ SeqStage /\ UNCHANGED <<prev, aside>>
    \/ ResetTracker /\ UNCHANGED aside

SpecReset == Init /\ [][NextReset]_vars

\* One run of run_research over a roster of people of any period.
NextAncient ==
    \/ StartRun(RunArgs) /\ UNCHANGED <<prev, aside>>
    \/ NextPerson(AnyPeople) /\ UNCHANGED <<prev, aside>>
    \/ FinishRun /\ UNCHANGED <<prev, aside>>
    \/ \E s \in SOURCES : search_source(s, BasicOutcomes, {TRUE}) /\ UNCHANGED <<prev, aside>>
    \/ StageResult /\ UNCHANGED <<prev, aside>>
    \/ SeqSearch(BasicOutcomes, {TRUE}) /\ UNCHANGED <<prev, aside>>
    \/ SeqStage /\ UNCHANGED <<prev, aside>>

SpecAncient == Init /\ [][NextAncient]_vars

\* ------------------------------------------------------ review and submit
\* StagedFindings.get_pending
get_pending(st) == SelectSeq(st, LAMBDA row : row.status = "pending")

\* get_approved without the filter on status.
get_approved_all(st) == st

\* StagedFindings.get_approved
get_approved(st) == SelectSeq(st, LAMBDA row : row.status = "approved")

\* NOW() of the database: a clock later than every reviewed_at written so far.
NOW(st) ==
    LET times == {0} \cup {st[i].reviewed_at : i \in DOMAIN st}
    IN 1 + CHOOSE t \in times : \A u \in times : u <= t

\* StagedFindings.approve: UPDATE ... WHERE id = finding_id
approve(st, finding_id, notes) ==
    [i \in DOMAIN st |->
        IF st[i].id = finding_id
        THEN [st[i] EXCEPT !.status = "approved", !.reviewed_at = NOW(st),
                           !.notes = notes]
        ELSE st[i]]

\* StagedFindings.reject: UPDATE ... WHERE id = finding_id
reject(st, finding_id, notes) ==
    [i \in DOMAIN st |->
        IF st[i].id = finding_id
        THEN [st[i] EXCEPT !.status = "rejected", !.reviewed_at = NOW(st),
                           !.notes = notes]
        ELSE st[i]]

ReviewNotes == {NULL, "checked"}

\* A research run stages one more finding (StagedFindings.add_finding).
AddFinding ==
    /\ Len(staged) < MaxFindings
    /\ staged' = add_finding(staged, Roster[1], "geneanet", Record(90), 90)
    /\ UNCHANGED <<search_log, cache, cache_loaded, daily_limit_sources, run, result,
                   hist, prev, review, submit>>

\* review_findings up to the first prompt: the session reads the pending list.
StartReview(r) ==
    /\ review[r].pc = "idle"
    /\ LET pending == get_pending(staged)
       IN review' = [review EXCEPT ![r] =
                        [pc |-> IF pending = <<>> THEN "done" ELSE "prompt",
                         pending |-> pending, i |-> 1]]
    /\ UNCHANGED <<search_log, staged, cache, cache_loaded, daily_limit_sources, run,
                   result, hist, prev, submit>>

\* One pass of "for finding in pending": the operator's answer and its effect.
ReviewChoice(r) ==
    /\ review[r].pc = "prompt"
    /\ LET finding == review[r].pending[review[r].i]
       IN \E action \in {"a", "r", "s", "q"}, notes \in ReviewNotes :
             /\ staged' = CASE action = "a" -> approve(staged, finding.id, notes)
                            [] action = "r" -> reject(staged, finding.id, notes)
                            [] OTHER -> staged
             /\ review' = [review EXCEPT
                             ![r].i = @ + 1,
                             ![r].pc = IF action = "q"
                                          \/ review[r].i = Len(review[r].pending)
                                       THEN "done" ELSE "prompt"]
    /\ UNCHANGED <<search_log, cache, cache_loaded, daily_limit_sources, run, result,
                   hist, prev, submit>>

\* submit_approved up to the confirmation prompt: it reads the approved list.
StartSubmit ==
    /\ submit.pc = "idle"
    /\ LET approved == get_approved(staged)
       IN submit' = [submit EXCEPT
                        !.approved = approved,
                        !.pc = IF approved = <<>> THEN "done" ELSE "confirm"]
    /\ UNCHANGED <<search_log, staged, cache, cache_loaded, daily_limit_sources, run,
                   result, hist, prev, review>>

\* "Proceed with submission? [y/N]"
Confirm ==
    /\ submit.pc = "confirm"
    /\ \E confirm \in {"y", "n"} :
          submit' = [submit EXCEPT !.pc = IF confirm = "y" THEN "send" ELSE "done",
                                   !.i = 1]
    /\ UNCHANGED <<search_log, staged, cache, cache_loaded, daily_limit_sources, run,
                   result, hist, prev, review>>

\* One pass of "for finding in approved": submit_research is called with the
\* finding and answers success, failure, or raises.
SubmitOne ==
    /\ submit.pc = "send"
    /\ LET finding == submit.approved[submit.i]
       IN \E answer \in {"success", "failure", "exception"} :
             submit' = [submit EXCEPT
                          !.sent = Append(@, finding),
                          !.submitted = IF answer = "success" THEN @ + 1 ELSE @,
                          !.errors = IF answer = "success" THEN @ ELSE @ + 1,
                          !.i = @ + 1,
                          !.pc = IF submit.i = Len(submit.approved)
                                 THEN "done" ELSE "send"]
    /\ UNCHANGED <<search_log, staged, cache, cache_loaded, daily_limit_sources, run,
                   result, hist, prev, review>>

\* Findings are staged while two review sessions and one submission run, each
\* in its own process on the same database.
NextReview ==
    \/ AddFinding /\ UNCHANGED aside
    \/ \E r \in Reviewers : StartReview(r) /\ UNCHANGED aside
    \/ \E r \in Reviewers : ReviewChoice(r) /\ UNCHANGED aside
    \/ StartSubmit /\ UNCHANGED aside
    \/ Confirm /\ UNCHANGED aside
    \/ SubmitOne /\ UNCHANGED aside

SpecReview == Init /\ [][NextReview]_vars

\* ------------------------------------------------------------ browser pool
PageFetch == "fetch_page_content"
FormFetch == "fetch_freebmd_with_playwright"

\* What a fetch that has loaded its page can end with: fetch_page_content
\* checks for a bot check and a daily limit, the FreeBMD form fetch does not.
Endings(fn) ==
    IF fn = PageFetch THEN {"content", "bot_check", "daily_limit", "error"}
    ELSE {"content", "error"}

\* The fetches between tab creation and the end of the fetch.
HasTab(w) == fetcher[w].pc \in {"tab", "loaded"}

\* The tab thread w created, if Chrome still has it.
TabOf(w) == {tb \in tabs : tb.id = w}

\* Semaphore.acquire with no test of the count.
acquire_unbounded(sem) == TRUE

\* threading.Semaphore.acquire: possible when a slot is free.
acquire(sem) == sem > 0

\* The tab is closed on a normal return only.
should_close_tab_on_return(fn, ended) == ended = "content"

\* should_close_tab of _fetch_with_playwright at its finally; the form fetch
\* closes its tab always.
should_close_tab(fn, ended) == ~(fn = PageFetch /\ ended = "bot_check")

\* The number of times a fetch function has incremented _active_fetches once
\* it holds the semaphore: fetch_page_content and _fetch_with_playwright each
\* increment it, the form fetch never does.
Increments(fn) == IF fn = PageFetch THEN 2 ELSE 0

\* cleanup_stale_tabs up to the listing of the tabs, at the start of a fetch:
\* it returns at once when a fetch is active or the last cleanup is recent.
CleanupCheck(w) ==
    /\ fetcher[w].pc = "idle"
    /\ \E fn \in {PageFetch, FormFetch} :
          IF _active_fetches > 0 \/ cleanup_recent
          THEN /\ fetcher' = [fetcher EXCEPT ![w] = [@ EXCEPT !.pc = "enter", !.fn = fn]]
               /\ UNCHANGED cleanup_recent
          ELSE /\ fetcher' = [fetcher EXCEPT ![w] = [@ EXCEPT !.pc = "sweep", !.fn = fn]]
               /\ cleanup_recent' = TRUE
    /\ UNCHANGED <<tabs, _browser_semaphore, _active_fetches>>
    /\ UNCHANGED <<core, limiter, scoring, journal, botcheck, backing, classifying, freebmd, tracking>>

\* cleanup_stale_tabs from the listing on: every about:blank tab is closed,
\* but one of them when all tabs are blank; a failed listing closes nothing.
Sweep(w) ==
    /\ fetcher[w].pc = "sweep"
    /\ LET blank_tabs == {tb \in tabs : tb.url = "about:blank"}
       IN \/ /\ blank_tabs = tabs /\ tabs # {}
             /\ \E kept \in blank_tabs : tabs' = {kept}
          \/ /\ blank_tabs # tabs
             /\ tabs' = tabs \ blank_tabs
          \/ UNCHANGED tabs
    /\ fetcher' = [fetcher EXCEPT ![w].pc = "enter"]
    /\ UNCHANGED <<_browser_semaphore, _active_fetches, cleanup_recent>>
    /\ UNCHANGED <<core, limiter, scoring, journal, botcheck, backing, classifying, freebmd, tracking>>

\* _cleanup_interval passes.
IntervalPasses ==
    /\ cleanup_recent
    /\ cleanup_recent' = FALSE
    /\ UNCHANGED <<fetcher, tabs, _browser_semaphore, _active_fetches>>
    /\ UNCHANGED <<core, limiter, scoring, journal, botcheck, backing, classifying, freebmd, tracking>>

\* fetch_page_content counts itself in _active_fetches; the form fetch goes
\* straight to the semaphore.
Enter(w) ==
    /\ fetcher[w].pc = "enter"
    /\ _active_fetches' = IF fetcher[w].fn = PageFetch THEN _active_fetches + 1
                          ELSE _active_fetches
    /\ fetcher' = [fetcher EXCEPT ![w].pc = "wait"]
    /\ UNCHANGED <<tabs, _browser_semaphore, cleanup_recent>>
    /\ UNCHANGED <<core, limiter, scoring, journal, botcheck, backing, classifying, freebmd, tracking>>

\* "with _browser_semaphore"; in fetch_page_content, _fetch_with_playwright
\* then calls cleanup_stale_tabs (which returns at once, a fetch being active)
\* and counts itself in _active_fetches again.
Acquire(w) ==
    /\ fetcher[w].pc = "wait"
    /\ acquire(_browser_semaphore)
    /\ _browser_semaphore' = _browser_semaphore - 1
    /\ _active_fetches' = IF fetcher[w].fn = PageFetch THEN _active_fetches + 1
                          ELSE _active_fetches
    /\ fetcher' = [fetcher EXCEPT ![w].pc = "in"]
    /\ UNCHANGED <<tabs, cleanup_recent>>
    /\ UNCHANGED <<core, limiter, scoring, journal, botcheck, backing, classifying, freebmd, tracking>>

\* The unwinding of a fetch that ends: the tab is closed unless it is to be
\* kept, the semaphore released, _active_fetches decremented.
Unwind(w, ended) ==
    /\ tabs' = IF should_close_tab(fetcher[w].fn, ended) THEN tabs \ TabOf(w) ELSE tabs
    /\ _browser_semaphore' = _browser_semaphore + 1
    /\ _active_fetches' = _active_fetches - Increments(fetcher[w].fn)
    /\ fetcher' = [fetcher EXCEPT ![w] = [@ EXCEPT !.pc = "done", !.ended = ended]]

\* connect_over_cdp and context.new_page(): a fresh about:blank tab, or the
\* connection fails and the fetch ends without a tab.
NewPage(w) ==
    /\ fetcher[w].pc = "in"
    /\ \/ /\ tabs' = tabs \cup {[id |-> w, url |-> "about:blank"]}
          /\ fetcher' = [fetcher EXCEPT ![w].pc = "tab"]
          /\ UNCHANGED <<_browser_semaphore, _active_fetches>>
       \/ Unwind(w, "error")
    /\ UNCHANGED cleanup_recent
    /\ UNCHANGED <<core, limiter, scoring, journal, botcheck, backing, classifying, freebmd, tracking>>

\* page.goto: the tab shows the page, or the navigation raises (always when
\* the tab has been closed under the fetch).
Goto(w) ==
    /\ fetcher[w].pc = "tab"
    /\ \/ /\ TabOf(w) # {}
          /\ tabs' = (tabs \ TabOf(w)) \cup {[id |-> w, url |-> "page"]}
          /\ fetcher' = [fetcher EXCEPT ![w].pc = "loaded"]
          /\ UNCHANGED <<_browser_semaphore, _active_fetches>>
       \/ Unwind(w, "error")
    /\ UNCHANGED cleanup_recent
    /\ UNCHANGED <<core, limiter, scoring, journal, botcheck, backing, classifying, freebmd, tracking>>

\* From the loaded page to the end of the fetch: content returned, bot check,
\* daily limit or another error.
Finish(w) ==
    /\ fetcher[w].pc = "loaded"
    /\ \E ended \in Endings(fetcher[w].fn) : Unwind(w, ended)
    /\ UNCHANGED cleanup_recent
    /\ UNCHANGED <<core, limiter, scoring, journal, botcheck, backing, classifying, freebmd, tracking>>

\* Threads fetching through the browser concurrently, each one page.
NextBrowser ==
    \/ \E w \in Workers : CleanupCheck(w)
    \/ \E w \in Workers : Sweep(w)
    \/ IntervalPasses
    \/ \E w \in Workers : Enter(w)
    \/ \E w \in Workers : Acquire(w)
    \/ \E w \in Workers : NewPage(w)
    \/ \E w \in Workers : Goto(w)
    \/ \E w \in Workers : Finish(w)

SpecBrowser == Init /\ [][NextBrowser]_vars

\* ------------------------------------------------------------ rate limiter
\* What a call of fn ends with.
FnResults == {NoError} \cup FnErrors

\* Every error is taken for a rate-limit error.
is_rate_limit_always(e) == TRUE

\* The two except branches of retry_with_backoff: an HTTPError is retried when
\* its response has status 429, another exception when its message matches.
is_rate_limit(e) == IF e.http THEN e.status_429 ELSE e.message_match

\* wait() that never sleeps.
wait_time_none(since_last) == 0

\* wait(): the time to sleep, given the time since the last stamp.
wait_time(since_last) == IF since_last < MinDelay THEN MinDelay - since_last ELSE 0

\* One pass too many.
loop_ends_late(attempt) == attempt > MaxRetries

\* "for attempt in range(self.max_retries)" is over after this pass.
loop_ends(attempt) == attempt + 1 >= MaxRetries

\* The time since the last stamp of each source after d more ticks.
Later(since, d) ==
    [s \in LimitedSources |-> IF since[s] + d >= MinDelay THEN MinDelay ELSE since[s] + d]

\* The program has one call site of retry_with_backoff, reached by one thread
\* at a time; the other threads call wait directly.
Retrying == {1}
Entries(w) == IF w \in Retrying THEN {"wait", "retry_with_backoff"} ELSE {"wait"}

\* A thread calls wait(source) directly or retry_with_backoff(fn, source).
Call(w) ==
    /\ caller[w].pc = "idle"
    /\ \E fn \in Entries(w), source \in LimitedSources :
          caller' = [caller EXCEPT ![w] = [NoCall EXCEPT !.pc = "wait", !.fn = fn,
                                                         !.source = source]]
    /\ UNCHANGED <<lock, elapsed, request_counts, stamps>>
    /\ UNCHANGED <<core, cdp, scoring, journal, botcheck, backing, classifying, freebmd, tracking>>

\* wait(): the lock is taken, the time since the last stamp read.
WaitLock(w) ==
    /\ caller[w].pc = "wait"
    /\ lock = 0
    /\ lock' = w
    /\ caller' = [caller EXCEPT ![w].pc = "locked",
                                ![w].wait_time = wait_time(elapsed[caller[w].source])]
    /\ UNCHANGED <<elapsed, request_counts, stamps>>
    /\ UNCHANGED <<core, cdp, scoring, journal, botcheck, backing, classifying, freebmd, tracking>>

\* wait(): the sleep (which may last longer than asked), the stamp, the count,
\* the release of the lock.
WaitStamp(w) ==
    /\ caller[w].pc = "locked"
    /\ LET source == caller[w].source
       IN \E over \in {0, 1} :
             LET after == Later(elapsed, caller[w].wait_time + over)
             IN /\ elapsed' = [after EXCEPT ![source] = 0]
                /\ stamps' = [stamps EXCEPT ![source].gap = after[source],
                                            ![source].returned = @ + 1]
                /\ request_counts' = [request_counts EXCEPT ![source] = @ + 1]
    /\ lock' = 0
    /\ caller' = [caller EXCEPT
                    ![w].waits = @ + 1,
                    ![w].pc = IF caller[w].fn = "wait" THEN "done" ELSE "call",
                    ![w].outcome = IF caller[w].fn = "wait" THEN "returned" ELSE @]
    /\ UNCHANGED <<core, cdp, scoring, journal, botcheck, backing, classifying, freebmd, tracking>>

\* Time passes.
Tick ==
    /\ \E s \in LimitedSources : elapsed[s] < MinDelay
    /\ elapsed' = Later(elapsed, 1)
    /\ UNCHANGED <<caller, lock, request_counts, stamps>>
    /\ UNCHANGED <<core, cdp, scoring, journal, botcheck, backing, classifying, freebmd, tracking>>

\* retry_with_backoff: fn is called; its result is returned, or its error is
\* raised at once, or kept as last_exception for the backoff.
CallFn(w) ==
    /\ caller[w].pc = "call"
    /\ \E r \in FnResults :
          caller' = [caller EXCEPT ![w] =
              IF ~r.raised
              THEN [@ EXCEPT !.calls = @ + 1, !.pc = "done", !.outcome = "returned"]
              ELSE IF is_rate_limit(r)
                   THEN [@ EXCEPT !.calls = @ + 1, !.pc = "backoff",
                                  !.last_exception = r]
                   ELSE [@ EXCEPT !.calls = @ + 1, !.pc = "done",
                                  !.outcome = "raised", !.last_exception = r]]
    /\ UNCHANGED <<lock, elapsed, request_counts, stamps>>
    /\ UNCHANGED <<core, cdp, scoring, journal, botcheck, backing, classifying, freebmd, tracking>>

\* retry_with_backoff: time.sleep(wait_time) after a rate-limit error (the
\* Retry-After seconds, which may be 0, or the exponential backoff, which is
\* at least min_delay), then the next pass or, the passes being over, the
\* raise of last_exception.
Backoff(w) ==
    /\ caller[w].pc = "backoff"
    /\ \E slept \in {0, MinDelay} :
          /\ slept = 0 => (caller[w].last_exception.http
                              /\ caller[w].last_exception.status_429)
          /\ elapsed' = Later(elapsed, slept)
    /\ caller' = [caller EXCEPT
                    ![w].sleeps = @ + 1,
                    ![w].attempt = @ + 1,
                    ![w].pc = IF loop_ends(caller[w].attempt) THEN "done" ELSE "wait",
                    ![w].outcome = IF loop_ends(caller[w].attempt) THEN "raised" ELSE @]
    /\ UNCHANGED <<lock, request_counts, stamps>>
    /\ UNCHANGED <<core, cdp, scoring, journal, botcheck, backing, classifying, freebmd, tracking>>

\* Threads calling the rate limiter concurrently, each once.
NextLimiter ==
    \/ \E w \in Callers : Call(w)
    \/ \E w \in Callers : WaitLock(w)
    \/ \E w \in Callers : WaitStamp(w)
    \/ Tick
    \/ \E w \in Callers : CallFn(w)
    \/ \E w \in Callers : Backoff(w)

SpecLimiter == Init /\ [][NextLimiter]_vars

\* ------------------------------------------------------------ match scoring
Abs(n) == IF n < 0 THEN -n ELSE n

\* The return without the upper clamp.
clamp_below_only(score) == IF score < 0 THEN 0 ELSE score

\* max(0, min(score, 100))
clamp(score) ==
    LET capped == IF score < 100 THEN score ELSE 100
    IN IF capped > 0 THEN capped ELSE 0

\* The sum before the clamp, branch by branch.
match_points(m) ==
    LET surname == CASE m.surname = "exact" -> 25
                     [] m.surname = "close" -> 15
                     [] m.surname = "partial" -> 5
                     [] OTHER -> 0
        given == CASE m.given_name = "exact" -> 15
                   [] m.given_name \in {"initial", "close"} -> 10
                   [] OTHER -> 0
        search_year == Or(m.birth_year, m.year_min)
        record_year == m.record_birth_year
        diff == Abs(search_year[1] - record_year[1])
        year == IF Truthy(search_year) /\ Truthy(record_year)
                THEN CASE diff = 0 -> 20
                       [] diff # 0 /\ diff <= 2 -> 15
                       [] diff > 2 /\ diff <= 5 -> 10
                       [] diff > 5 /\ diff <= 10 -> 5
                       [] diff > 20 -> -10
                       [] OTHER -> 0
                ELSE 0
        location == CASE m.location = "exact" -> 10
                      [] m.location = "close" -> 5
                      [] OTHER -> 0
        bonus == (IF m.death_year THEN 2 ELSE 0) + (IF m.death_place THEN 2 ELSE 0)
                    + (IF m.parents THEN 4 ELSE 0) + (IF m.url THEN 2 ELSE 0)
    IN 50 + surname + given + year + location + bonus

calculate_match_score(m) == clamp(match_points(m))

\* An extractor has a record to score against the search parameters.
DrawMatch ==
    /\ scored.pc = "idle"
    /\ \E m \in MatchInputs : scored' = [pc |-> "drawn", input |-> m, score |-> None]
    /\ UNCHANGED <<core, cdp, limiter, journal, botcheck, backing, classifying, freebmd, tracking>>

\* The extractor scores it.
Score ==
    /\ scored.pc = "drawn"
    /\ scored' = [scored EXCEPT !.pc = "scored",
                                !.score = Some(calculate_match_score(scored.input))]
    /\ UNCHANGED <<core, cdp, limiter, journal, botcheck, backing, classifying, freebmd, tracking>>

NextScore ==
    \/ DrawMatch
    \/ Score

SpecScore == Init /\ [][NextScore]_vars

\* ------------------------------------------------------------ error journal
\* q[-n:]
LastOf(q, n) == IF Len(q) <= n THEN q ELSE SubSeq(q, Len(q) - n + 1, Len(q))

\* A trim that keeps the oldest entries.
trim_oldest(q) == IF Len(q) > JournalCap THEN SubSeq(q, 1, JournalCap) ELSE q

\* "if len(self.errors) > 1000: self.errors = self.errors[-1000:]"
trim(q) == IF Len(q) > JournalCap THEN LastOf(q, JournalCap) ELSE q

\* ErrorTracker._save: the file is rewritten, or the write fails and the
\* failure is only printed.
_save(errs, counts, ok) == IF ok THEN [errors |-> errs, counts |-> counts] ELSE log_file

\* log_error: a thread takes the lock; its entry gets its place in the order
\* of arrival.
LogEnter(w) ==
    /\ logging[w] = NoEntry
    /\ tracker_lock = 0
    /\ Len(arrivals) < MaxLogged
    /\ \E key \in LoggedKeys :
          LET error_entry == [key |-> key, seq |-> Len(arrivals) + 1]
          IN /\ logging' = [logging EXCEPT ![w] = error_entry]
             /\ arrivals' = Append(arrivals, error_entry)
    /\ tracker_lock' = w
    /\ UNCHANGED <<errors, error_counts, log_file>>
    /\ UNCHANGED <<core, cdp, limiter, scoring, botcheck, backing, classifying, freebmd, tracking>>

\* log_error under the lock: append, count, trim, save; the lock is released.
LogWrite(w) ==
    /\ tracker_lock = w
    /\ logging[w] # NoEntry
    /\ LET error_key == logging[w].key
           appended == Append(errors, logging[w])
           counts == [error_counts EXCEPT ![error_key] = @ + 1]
       IN /\ errors' = trim(appended)
          /\ error_counts' = counts
          /\ \E ok \in BOOLEAN : log_file' = _save(trim(appended), counts, ok)
    /\ logging' = [logging EXCEPT ![w] = NoEntry]
    /\ tracker_lock' = 0
    /\ UNCHANGED arrivals
    /\ UNCHANGED <<core, cdp, limiter, scoring, botcheck, backing, classifying, freebmd, tracking>>

\* ErrorTracker.clear, under the lock.
Clear ==
    /\ tracker_lock = 0
    /\ arrivals # <<>>
    /\ errors' = <<>>
    /\ error_counts' = [k \in ErrorKeys |-> 0]
    /\ \E ok \in BOOLEAN : log_file' = _save(<<>>, [k \in ErrorKeys |-> 0], ok)
    /\ arrivals' = <<>>
    /\ UNCHANGED <<tracker_lock, logging>>
    /\ UNCHANGED <<core, cdp, limiter, scoring, botcheck, backing, classifying, freebmd, tracking>>

\* Threads logging errors concurrently, the journal cleared now and then.
NextJournal ==
    \/ \E w \in Workers : LogEnter(w)
    \/ \E w \in Workers : LogWrite(w)
    \/ Clear

SpecJournal == Init /\ [][NextJournal]_vars

\* ---------------------------------------------------------------- bot check
\* The detection of one pass: a visible overlay, or a visible CAPTCHA iframe
\* larger than 200x100.
bot_check_found(page) == page.overlay = "visible" \/ page.iframe = "large"

\* _handle_bot_check is called on a loaded page.
HandleBotCheck ==
    /\ challenge.pc = "idle"
    /\ \E page \in Pages : challenge' = [NoChallenge EXCEPT !.pc = "loop", !.page = page]
    /\ UNCHANGED <<core, cdp, limiter, scoring, journal, backing, classifying, freebmd, tracking>>

\* One pass of "for attempt in range(max_attempts)": no bot check, return;
\* a checkbox to click, click it (the page then shows whatever it shows) and
\* go on; no checkbox, raise BotCheckDetected.
BotCheckPass ==
    /\ challenge.pc = "loop"
    /\ IF ~bot_check_found(challenge.page)
       THEN challenge' = [challenge EXCEPT !.pc = "done", !.outcome = "returned"]
       ELSE IF challenge.page.checkbox
            THEN \E page \in Pages :
                    challenge' = [challenge EXCEPT
                        !.clicks = @ + 1,
                        !.page = page,
                        !.attempt = @ + 1,
                        !.pc = IF challenge.attempt + 1 >= MaxAttempts
                               THEN "max_attempts" ELSE "loop"]
            ELSE challenge' = [challenge EXCEPT !.pc = "done", !.outcome = "raised"]
    /\ UNCHANGED <<core, cdp, limiter, scoring, journal, backing, classifying, freebmd, tracking>>

\* After the last pass: BotCheckDetected if one of the overlay selectors is
\* in the page, a normal return otherwise.
BotCheckLast ==
    /\ challenge.pc = "max_attempts"
    /\ challenge' = [challenge EXCEPT
                        !.pc = "done",
                        !.outcome = IF challenge.page.overlay # "absent"
                                    THEN "raised" ELSE "returned"]
    /\ UNCHANGED <<core, cdp, limiter, scoring, journal, backing, classifying, freebmd, tracking>>

NextBotCheck ==
    \/ HandleBotCheck
    \/ BotCheckPass
    \/ BotCheckLast

SpecBotCheck == Init /\ [][NextBotCheck]_vars

\* ------------------------------------------------------------------ backoff
RECURSIVE Pow(_, _)
Pow(b, e) == IF e = 0 THEN 1 ELSE b * Pow(b, e - 1)

\* float() of a header that is a number.
float(s) ==
    CASE s = "0" -> 0 [] s = "1" -> 1 [] s = "2" -> 2 [] s = "5" -> 5
      [] s = "30" -> 30 [] s = "60" -> 60 [] s = "120" -> 120 [] s = "3600" -> 3600

\* wait_time of retry_with_backoff after a rate-limit error on pass attempt:
\* float(retry_after) for a 429 response with a numeric Retry-After, otherwise
\* self.min_delay * (self.backoff_factor ** (attempt + 1)).
backoff_wait_time(attempt, http, retry_after) ==
    IF http /\ retry_after # "" /\ retry_after \in NumericRetryAfters
    THEN float(retry_after)
    ELSE min_delay * Pow(backoff_factor, attempt + 1)

\* fn fails with a rate-limit error on some pass of the loop: a 429 response
\* with its Retry-After header, or another exception with a rate-limit message.
RateLimited ==
    /\ backoff.pc = "idle"
    /\ \E attempt \in 0..(MaxRetries - 1), http \in BOOLEAN, retry_after \in RetryAfters :
          /\ ~http => retry_after = ""
          /\ backoff' = [NoBackoff EXCEPT !.pc = "caught", !.attempt = attempt,
                                          !.http = http, !.retry_after = retry_after]
    /\ UNCHANGED <<core, cdp, limiter, scoring, journal, botcheck, classifying, freebmd, tracking>>

\* The sleep before the next pass.
BackoffSleep ==
    /\ backoff.pc = "caught"
    /\ backoff' = [backoff EXCEPT
                      !.pc = "slept",
                      !.wait_time = backoff_wait_time(backoff.attempt, backoff.http,
                                                      backoff.retry_after)]
    /\ UNCHANGED <<core, cdp, limiter, scoring, journal, botcheck, classifying, freebmd, tracking>>

NextBackoff ==
    \/ RateLimited
    \/ BackoffSleep

SpecBackoff == Init /\ [][NextBackoff]_vars

\* ----------------------------------------------------------- classification
\* "phrase in error_msg"
Contains(error_msg, phrase) == phrase \in error_msg

\* The if/elif chain of extract_from_source under "except Exception".
error_type_of(error_msg) ==
    IF Contains(error_msg, "429") \/ Contains(error_msg, "rate limit") THEN "RATE_LIMIT"
    ELSE IF Contains(error_msg, "timeout") THEN "TIMEOUT"
    ELSE IF Contains(error_msg, "navigation") THEN "NAVIGATION"
    ELSE IF Contains(error_msg, "404") THEN "NOT_FOUND"
    ELSE "UNKNOWN"

\* An extraction raises an exception other than bot check and daily limit.
Raise ==
    /\ classified.pc = "idle"
    /\ \E error_msg \in Messages :
          classified' = [NoClassified EXCEPT !.pc = "raised", !.error_msg = error_msg]
    /\ UNCHANGED <<core, cdp, limiter, scoring, journal, botcheck, backing, freebmd, tracking>>

\* extract_from_source determines the error type.
Classify ==
    /\ classified.pc = "raised"
    /\ classified' = [classified EXCEPT !.pc = "classified",
                                        !.error_type = error_type_of(classified.error_msg)]
    /\ UNCHANGED <<core, cdp, limiter, scoring, journal, botcheck, backing, freebmd, tracking>>

NextClassify ==
    \/ Raise
    \/ Classify

SpecClassify == Init /\ [][NextClassify]_vars

\* ------------------------------------------------------------ FreeBMD form
\* params.get('birth_year_end', birth_year + 2); Some(d) is birth_year + d.
first_end(params) ==
    IF params.birth_year_end = None THEN params.birth_year + 2
    ELSE params.birth_year + params.birth_year_end[1]

\* A retry with the range left as it was.
narrowed_end_unchanged(params) == first_end(params)

\* The end year of the retry: "Same year = 1 year range".
narrowed_end(params) == params.birth_year

\* An exception inside the form fetch: the finally closes the tab if there is
\* one, the outer except logs the error and returns "".
FormFails(tab) ==
    form' = [form EXCEPT !.pc = "done", !.tab = tab, !.returned = "", !.raised = TRUE]

\* fetch_freebmd_with_playwright up to the new tab (or connecting fails).
FormOpen ==
    /\ form.pc = "idle"
    /\ \E params \in FormParams :
          \/ form' = [NoForm EXCEPT !.pc = "page", !.params = params, !.tab = "open"]
          \/ form' = [NoForm EXCEPT !.pc = "done", !.params = params, !.returned = "",
                                    !.raised = TRUE]
    /\ UNCHANGED <<core, cdp, limiter, scoring, journal, botcheck, backing, classifying, tracking>>

\* The form is loaded, filled and submitted; the response has the 3000-record
\* marker or not. Without it the content is returned and the tab closed.
FormSubmit ==
    /\ form.pc = "page"
    /\ \/ FormFails("closed")
       \/ \E marker \in BOOLEAN :
             form' = [form EXCEPT
                        !.submitted = Append(@, <<form.params.birth_year,
                                                  first_end(form.params)>>),
                        !.markers = Append(@, marker),
                        !.pc = IF marker THEN "narrow" ELSE "done",
                        !.tab = IF marker THEN "open" ELSE "closed",
                        !.returned = IF marker THEN "none" ELSE "content"]
    /\ UNCHANGED <<core, cdp, limiter, scoring, journal, botcheck, backing, classifying, tracking>>

\* The retry after the marker: one more submission with the narrowed range;
\* "" is returned if the marker is still there, the content otherwise; the
\* tab is closed.
FormResubmit ==
    /\ form.pc = "narrow"
    /\ \/ FormFails("closed")
       \/ \E marker \in BOOLEAN :
             form' = [form EXCEPT
                        !.submitted = Append(@, <<form.params.birth_year,
                                                  narrowed_end(form.params)>>),
                        !.markers = Append(@, marker),
                        !.pc = "done",
                        !.tab = "closed",
                        !.returned = IF marker THEN "" ELSE "content"]
    /\ UNCHANGED <<core, cdp, limiter, scoring, journal, botcheck, backing, classifying, tracking>>

NextForm ==
    \/ FormOpen
    \/ FormSubmit
    \/ FormResubmit

SpecForm == Init /\ [][NextForm]_vars

\* ------------------------------------------------------- journal of a run
\* The phrases of an error message the classification looks for.
PhrasesOf(msg) == IF msg = "Timeout 30000ms exceeded" THEN {"timeout"} ELSE {}

\* What the except clauses of extract_from_source write to the journal for
\* the fetch just made: log_error with the classified error type under
\* "except Exception", nothing under "except BotCheckDetected" and "except
\* DailyLimitReached".
LogOutcome ==
    LET fetched == {s \in SOURCES : hist'.nfetch[s] = hist.nfetch[s] + 1}
        logged == {s \in fetched :
                      hist'.outcome[s].kind \in {"fetch_error", "extractor_error"}}
    IN IF logged = {}
       THEN UNCHANGED journal
       ELSE \E s \in logged :
               LET error_key == <<s, error_type_of(PhrasesOf(hist'.outcome[s].msg))>>
                   error_entry == [key |-> error_key, seq |-> Len(arrivals) + 1]
                   counts == [error_counts EXCEPT ![error_key] = @ + 1]
               IN /\ errors' = trim(Append(errors, error_entry))
                  /\ error_counts' = counts
                  /\ \E ok \in BOOLEAN :
                        log_file' = _save(trim(Append(errors, error_entry)), counts, ok)
                  /\ arrivals' = Append(arrivals, error_entry)
                  /\ UNCHANGED <<tracker_lock, logging>>

\* A run of run_research with the journal its extractions write.
NextLogged ==
    \/ StartRun(RerunArgs) /\ UNCHANGED <<prev, aside>>
    \/ NextPerson(ModernPeople) /\ UNCHANGED <<prev, aside>>
    \/ FinishRun /\ UNCHANGED <<prev, aside>>
    \/ \E s \in SOURCES : search_source(s, FetchOutcomes, {TRUE}) /\ LogOutcome
      /\ UNCHANGED <<prev, cdp, limiter, scoring, botcheck, backing, classifying,
                      freebmd, tracking>>
    \/ StageResult /\ UNCHANGED <<prev, aside>>
    \/ SeqSearch(FetchOutcomes, {TRUE}) /\ LogOutcome
      /\ UNCHANGED <<prev, cdp, limiter, scoring, botcheck, backing, classifying,
                      freebmd, tracking>>
    \/ SeqStage /\ UNCHANGED <<prev, aside>>

SpecLogged == Init /\ [][NextLogged]_vars

\* ------------------------------------------------- dedup store, call by call
\* A worker calls tracker.mark_processed for a pair; the write succeeds or
\* fails (the failure is caught and printed).
MarkProcessed ==
    /\ \E person_id \in People, source \in SOURCES, db_ok \in BOOLEAN :
          /\ mark_processed(person_id, source, 0, FALSE, NULL, db_ok)
          /\ last_call' = [op |-> "mark_processed", pair |-> <<person_id, source>>,
                           db_ok |-> db_ok,
                           was_processed |-> is_processed(person_id, source)]
    /\ UNCHANGED cache_loaded
    /\ UNCHANGED <<staged, daily_limit_sources, run, result, hist, prev, review, submit,
                   cdp, limiter, scoring, journal, botcheck, backing, classifying, freebmd>>

\* is_processed or get_unprocessed_sources is called: _ensure_cache loads the
\* cache from search_log if it is not loaded, unless the read fails.
IsProcessed ==
    /\ \E person_id \in People, source \in SOURCES, db_ok \in BOOLEAN :
          /\ cache' = IF db_ok THEN _ensure_cache ELSE cache
          /\ cache_loaded' = (cache_loaded \/ db_ok)
          /\ last_call' = [op |-> "is_processed", pair |-> <<person_id, source>>,
                           db_ok |-> db_ok,
                           was_processed |-> is_processed(person_id, source)]
    /\ UNCHANGED search_log
    /\ UNCHANGED <<staged, daily_limit_sources, run, result, hist, prev, review, submit,
                   cdp, limiter, scoring, journal, botcheck, backing, classifying, freebmd>>

\* ProcessedTracker.clear: the rows are deleted and the cache dropped, or the
\* DELETE fails and nothing changes.
ClearTracker ==
    /\ \E db_ok \in BOOLEAN :
          /\ search_log' = IF db_ok THEN {} ELSE search_log
          /\ cache' = IF db_ok THEN {} ELSE cache
          /\ cache_loaded' = IF db_ok THEN FALSE ELSE cache_loaded
          /\ last_call' = [NoTrackerCall EXCEPT !.op = "clear", !.db_ok = db_ok]
    /\ UNCHANGED <<staged, daily_limit_sources, run, result, hist, prev, review, submit,
                   cdp, limiter, scoring, journal, botcheck, backing, classifying, freebmd>>

\* ProcessedTracker.refresh_cache: the cache is dropped and loaded again, if
\* the read does not fail.
RefreshCache ==
    /\ \E db_ok \in BOOLEAN :
          /\ cache' = IF db_ok THEN {<<r.person_id, r.source_name>> : r \in search_log}
                      ELSE {}
          /\ cache_loaded' = db_ok
          /\ last_call' = [NoTrackerCall EXCEPT !.op = "refresh_cache", !.db_ok = db_ok]
    /\ UNCHANGED search_log
    /\ UNCHANGED <<staged, daily_limit_sources, run, result, hist, prev, review, submit,
                   cdp, limiter, scoring, journal, botcheck, backing, classifying, freebmd>>

\* Any sequence of calls on the tracker of one process.
NextTracker ==
    \/ MarkProcessed
    \/ IsProcessed
    \/ ClearTracker
    \/ RefreshCache

SpecTracker == Init /\ [][NextTracker]_vars

\* ------------------------------------------------------------------ claims
\* The current person's pass through the loop body has ended.
PersonDone == run.pc \in {"loop", "done"} /\ run.person_id # 0

Candidates == SeqToSet(run.unprocessed_sources)

Rows(person_id, source) ==
    SelectSeq(staged, LAMBDA row : row.person_id = person_id /\ row.source_name = source)

\* The staged rows of a pair as a bag of (name, match_score).
FindingsOf(person_id, source) ==
    LET rows == Rows(person_id, source)
    IN BagOfSeq([i \in DOMAIN rows |->
                   [name |-> rows[i].name, match_score |-> rows[i].match_score]])

Qualifying(records, min_score) ==
    SelectSeq(records, LAMBDA r : r.match_score >= min_score)

HasRow(person_id, source) ==
    \E r \in search_log : r.person_id = person_id /\ r.source_name = source

FailureKinds == {"fetch_error", "extractor_error", "bot_check", "daily_limit"}

\* C2 as stated: after a run in which the search of src for pid ended with a
\* bot check, is_processed(pid, src) is false and src is not in the session
\* daily-limit skip-set.
C2_AsStated ==
    run.pc = "done" =>
        \A pr \in hist.bot :
            ~is_processed(pr[1], pr[2]) /\ pr[2] \notin daily_limit_sources

\* C2 amended: a pair whose search ended with a bot check has no search_log
\* row and is not processed, and its source is in the skip-set only if a search
\* of that source ended with a daily limit in the same run.
C2_NoWriteOnBotCheck ==
    \A pr \in hist.bot :
        /\ ~is_processed(pr[1], pr[2])
        /\ ~HasRow(pr[1], pr[2])
        /\ pr[2] \in daily_limit_sources =>
              \E q \in People : <<q, pr[2]>> \in hist.limit_hit

\* C2 witness: a run has ended in which a source bot-checked for one person
\* and was fetched again for a later one.
C2_Witness ==
    /\ run.pc = "done"
    /\ \E pr \in hist.bot : \E q \in People :
          q > pr[1] /\ <<q, pr[2]>> \in hist.fetched

\* C3: once a search of src ended with a daily limit for a person, no later
\* person of the run has src fetched, and no search_log row is written for
\* that person and src.
C3_DailyLimitSkip ==
    \A pr \in hist.limit_hit :
        /\ \A q \in People : q > pr[1] => <<q, pr[2]>> \notin hist.fetched
        /\ ~HasRow(pr[1], pr[2])

\* C4: when a person's pass has ended, every candidate source was searched
\* exactly once (no other source was searched) and every qualifying record of
\* every source that succeeded is staged, whatever the other sources ended with.
C4_FailureIsolation ==
    PersonDone =>
        \A s \in SOURCES :
            /\ hist.nfetch[s] = IF s \in Candidates THEN 1 ELSE 0
            /\ hist.outcome[s].kind = "content" =>
                  BagOfSeq(Qualifying(hist.outcome[s].parsed, run.min_score))
                      \sqsubseteq FindingsOf(run.person_id, s)

\* C4 witness: a person's pass ended with one source failed and another
\* source's record staged, in parallel mode.
C4_Witness ==
    /\ PersonDone
    /\ run.parallel
    /\ \E s1, s2 \in SOURCES :
          /\ hist.outcome[s1].kind \in FailureKinds
          /\ run.results = <<s1, s2>>
          /\ hist.outcome[s2].kind = "content"
          /\ Rows(run.person_id, s2) # <<>>

\* C5: a search that failed with an error other than bot check or daily limit
\* leaves a search_log row with had_error = true and the error message; a
\* search that succeeded leaves a row with had_error = false and result_count
\* equal to the number of records returned.
C5_MarkedWithOutcome ==
    \A s \in SOURCES :
        LET o == hist.outcome[s]
        IN /\ o.kind \in {"fetch_error", "extractor_error"} =>
                 \E r \in search_log :
                     /\ r.person_id = run.person_id /\ r.source_name = s
                     /\ r.had_error /\ r.error_message = o.msg
           /\ o.kind = "content" =>
                 \E r \in search_log :
                     /\ r.person_id = run.person_id /\ r.source_name = s
                     /\ ~r.had_error /\ r.result_count = Len(o.parsed)

\* C6: when the payload fetched for a pair has a result-present indicator and
\* the extractor yields no record, exactly one sentinel finding (PARSE_FAILED
\* or PARSE_ERROR, match_score 50) is staged for the pair.
C6_FallbackSentinel ==
    PersonDone =>
        \A s \in SOURCES :
            LET o == hist.outcome[s]
                rows == Rows(run.person_id, s)
            IN (o.kind = "content" /\ _has_results_indicator(o)
                    /\ extract_records(o) = <<>>) =>
                   /\ Len(rows) = 1
                   /\ rows[1].name \in {"PARSE_FAILED", "PARSE_ERROR"}
                   /\ rows[1].match_score = 50

\* C9: the rows staged for a pair are exactly the records of its successful
\* search whose match_score is at least min_score (none when the search did
\* not succeed), and every row the run inserts has status pending.
C9_StagedIffQualifying ==
    /\ PersonDone =>
          \A s \in SOURCES :
              FindingsOf(run.person_id, s) =
                  IF hist.outcome[s].kind = "content"
                  THEN BagOfSeq(Qualifying(hist.outcome[s].parsed, run.min_score))
                  ELSE EmptyBag
    /\ \A i \in DOMAIN staged : staged[i].status = "pending"

\* C9 witness: a successful search returned a record below min_score and one
\* at or above it, and only the second is staged.
C9_Witness ==
    /\ PersonDone
    /\ \E s \in SOURCES :
          /\ hist.outcome[s].kind = "content"
          /\ Len(hist.outcome[s].parsed) = 2
          /\ Len(Rows(run.person_id, s)) = 1
          /\ Rows(run.person_id, s)[1].match_score >= run.min_score

C7_ParallelSequentialEquivalence ==
    (prev.rerun /\ run.pc = "done") => AllFindings = prev.findings

\* C8 as stated: every status change of a staged_findings row starts from
\* pending; an approved or rejected row never changes status again.
C8_StagingMonotonicity ==
    [][\A i \in DOMAIN staged \cap DOMAIN staged' :
          staged'[i].status # staged[i].status => staged[i].status = "pending"]_vars

\* C10: every finding submit_approved sends was read with status approved, and
\* no step of submit_approved (reading, confirming or cancelling, sending with
\* any answer) changes a staged_findings row.
C10_SubmitOnlyApproved ==
    [][submit' # submit =>
          /\ staged' = staged
          /\ \A i \in DOMAIN submit'.sent : submit'.sent[i].status = "approved"]_vars

\* C10 witness: a confirmed submission has ended with a failed send while a
\* rejected row sits in the table.
C10_Witness ==
    /\ submit.pc = "done"
    /\ submit.errors = 1
    /\ Len(submit.sent) = 1
    /\ \E i \in DOMAIN staged : staged[i].status = "rejected"

\* C11: no source is searched for a person whose birth_year is an integer below
\* 1200 (0 and negative years included), whatever estimated_birth_year is.
C11_AncientFilter ==
    (run.person.birth_year # None /\ run.person.birth_year[1] < 1200) =>
        \A s \in SOURCES : hist.nfetch[s] = 0

C13_NoInUseTabClosed ==
    \A w \in Workers : HasTab(w) => TabOf(w) # {}

C16_RetryTerminates ==
    \A w \in Callers :
        caller[w].fn = "retry_with_backoff" =>
            /\ caller[w].calls <= MaxRetries
            /\ caller[w].waits = IF caller[w].pc = "call" THEN caller[w].calls + 1
                                 ELSE caller[w].calls
            /\ caller[w].calls = MaxRetries =>
                  caller[w].pc \in {"backoff", "done"}
            /\ (caller[w].pc = "done" /\ caller[w].outcome = "raised"
                   /\ is_rate_limit(caller[w].last_exception)) =>
                  caller[w].calls = MaxRetries
            /\ (caller[w].pc = "done" /\ caller[w].outcome = "returned") =>
                  caller[w].sleeps = caller[w].calls - 1

\* C16 witness: fn has failed max_retries times with rate-limit errors and the
\* last one has been raised.
C16_Witness ==
    \E w \in Callers :
        /\ caller[w].pc = "done" /\ caller[w].outcome = "raised"
        /\ caller[w].calls = MaxRetries /\ caller[w].waits = MaxRetries

\* C17: an error of fn that is neither an HTTP 429 response nor has a message
\* holding '429', 'too many' or 'rate limit' is raised at once: the call that
\* raised it is the last one and no sleep follows it.
C17_OtherErrorsRaiseAtOnce ==
    \A w \in Callers :
        LET e == caller[w].last_exception
        IN (e.raised /\ ~(e.http /\ e.status_429) /\ ~e.message_match) =>
              /\ caller[w].pc = "done"
              /\ caller[w].outcome = "raised"
              /\ caller[w].sleeps = caller[w].calls - 1

\* C17 witness: after a rate-limit error and its backoff, fn has raised an
\* error of another kind, which ended the call.
C17_Witness ==
    \E w \in Callers :
        LET e == caller[w].last_exception
        IN /\ caller[w].pc = "done" /\ caller[w].calls = 2 /\ caller[w].sleeps = 1
           /\ e.raised /\ ~e.status_429 /\ ~e.message_match

\* C18: calculate_match_score returns an integer from 0 to 100 whatever the
\* record and the search parameters, the sum of the points being above 100 or
\* not.
C18_ScoreRange ==
    scored.pc = "scored" =>
        /\ scored.score[1] \in 0..100
        /\ match_points(scored.input) > 100 => scored.score[1] = 100
        /\ match_points(scored.input) \in 0..100 =>
              scored.score[1] = match_points(scored.input)

\* C18 witness: a record whose points add up to more than 100 has been scored.
C18_Witness ==
    scored.pc = "scored" /\ match_points(scored.input) > 100

\* C19: once a log_error call has returned, the journal holds at most the cap
\* of entries, they are the most recently logged ones in the order of arrival,
\* and error_counts of each key is the number of log_error calls for that key
\* since the last clear, trimmed entries included.
C19_JournalCapAndCounts ==
    tracker_lock = 0 =>
        /\ Len(errors) <= JournalCap
        /\ errors = LastOf(arrivals, JournalCap)
        /\ \A k \in ErrorKeys :
              error_counts[k] = Cardinality({i \in DOMAIN arrivals : arrivals[i].key = k})

\* C19 witness: more entries than the cap have been logged since the last
\* clear, so the journal has been trimmed, and no call is under way.
C19_Witness ==
    /\ tracker_lock = 0
    /\ Len(arrivals) > JournalCap
    /\ Len(errors) = JournalCap

\* C20: a run that has ended has a non-zero exit code if one of its
\* per-source extractions ended with an error, and exit code 0 otherwise.
C20_ExitCode ==
    run.pc = "done" =>
        /\ run.exit_code # None
        /\ hist.errored <=> run.exit_code[1] # 0

\* C21: a thread that has a sleep to make in wait(A) does not hold the lock
\* of the limiter, so that a wait(B) for another source whose min_delay has
\* elapsed is not held up by it.
C21_SleepOutsideLock ==
    \A w \in Callers :
        (caller[w].pc = "locked" /\ caller[w].wait_time > 0) =>
            \A v \in Callers \ {w} :
                (caller[v].pc = "wait" /\ caller[v].source # caller[w].source
                    /\ elapsed[caller[v].source] >= MinDelay) => lock = 0

\* C22: in every reachable state (each one a state a crash can leave), a pair
\* marked processed after a successful search has every record of that search
\* with match_score at least min_score in the staging store.
C22_StagedBeforeMarked ==
    \A s \in SOURCES :
        (<<run.person_id, s>> \in hist.completed /\ hist.outcome[s].kind = "content") =>
            BagOfSeq(Qualifying(hist.outcome[s].parsed, run.min_score))
                \sqsubseteq FindingsOf(run.person_id, s)

\* C23: _active_fetches is never negative, it is above zero whenever a fetch
\* of either kind holds a tab, and once every fetch has ended it is 0 with both
\* slots of the semaphore free.
C23_InFlightCounter ==
    /\ _active_fetches >= 0
    /\ \A w \in Workers : HasTab(w) => _active_fetches > 0
    /\ (\A w \in Workers : fetcher[w].pc \in {"idle", "done"}) =>
          (_active_fetches = 0 /\ _browser_semaphore = SemaphoreWidth)

\* C24: _handle_bot_check clicks at most max_attempts times; it returns
\* normally only when the page shows no visible overlay and no visible CAPTCHA
\* iframe larger than 200x100, and raises BotCheckDetected when one is still
\* there after its attempts.
C24_BotCheckOutcome ==
    /\ challenge.clicks <= MaxAttempts
    /\ challenge.pc = "done" =>
          /\ challenge.outcome = "returned" => ~bot_check_found(challenge.page)
          /\ bot_check_found(challenge.page) => challenge.outcome = "raised"

\* C25: search_log never holds two rows for one pair, and a run repeated
\* after a reset of the tracker, the sources answering as they did, leaves the
\* staging store with the findings of the single run, none of them twice.
C25_IdempotentWrites ==
    /\ \A r1, r2 \in search_log :
          (r1.person_id = r2.person_id /\ r1.source_name = r2.source_name) => r1 = r2
    /\ (prev.rerun /\ run.pc = "done") => AllFindings = prev.findings

\* C26: after a rate-limit error on pass a (from 0) without a usable
\* Retry-After, the sleep is min_delay * backoff_factor^a; with a numeric
\* Retry-After on a 429 response, the sleep is that number of seconds.
C26_BackoffSchedule ==
    backoff.pc = "slept" =>
        backoff.wait_time =
            IF backoff.http /\ backoff.retry_after \in NumericRetryAfters
            THEN float(backoff.retry_after)
            ELSE min_delay * Pow(backoff_factor, backoff.attempt)

\* C27: the error type of a failed extraction is given by the first rule that
\* matches its message: '429', 'rate limit' or 'too many' RATE_LIMIT, then
\* 'timeout' TIMEOUT, 'navigation' NAVIGATION, '404' NOT_FOUND, else UNKNOWN.
C27_ErrorTypeRules ==
    classified.pc = "classified" =>
        LET m == classified.error_msg
        IN classified.error_type =
              IF "429" \in m \/ "rate limit" \in m \/ "too many" \in m THEN "RATE_LIMIT"
              ELSE IF "timeout" \in m THEN "TIMEOUT"
              ELSE IF "navigation" \in m THEN "NAVIGATION"
              ELSE IF "404" \in m THEN "NOT_FOUND"
              ELSE "UNKNOWN"

\* C28: a FreeBMD form fetch submits the form at most twice; when it ends
\* without an exception it has submitted once if the first response had no
\* 3000-record marker, and twice if it had, the second time with the end year
\* equal to the start year, returning an empty payload if the marker is still
\* there; the tab is closed when the fetch returns.
C28_FormRetryOnce ==
    /\ Len(form.submitted) <= 2
    /\ Len(form.submitted) = 2 =>
          (form.markers[1] /\ form.submitted[2] = <<form.params.birth_year,
                                                    form.params.birth_year>>)
    /\ form.pc = "done" =>
          /\ form.tab # "open"
          /\ ~form.raised =>
                /\ Len(form.submitted) = IF form.markers[1] THEN 2 ELSE 1
                /\ form.returned = IF form.markers[Len(form.markers)] THEN "" ELSE "content"

\* C28 witness: the first response had the marker, the form was submitted
\* again with the one-year range, the marker was still there and the fetch
\* returned the empty payload with its tab closed.
C28_Witness ==
    /\ form.pc = "done" /\ ~form.raised
    /\ form.markers = <<TRUE, TRUE>>
    /\ form.submitted[1][2] # form.submitted[2][2]
    /\ form.returned = "" /\ form.tab = "closed"

\* C29: for each source, the journal has one BOT_CHECK entry for every search
\* of the run that ended with a bot check and one DAILY_LIMIT entry for every
\* search that ended with a daily limit.
C29_BotCheckLogged ==
    \A s \in SOURCES :
        /\ Cardinality({i \in DOMAIN arrivals : arrivals[i].key = <<s, "BOT_CHECK">>})
              = Cardinality({pr \in hist.bot : pr[2] = s})
        /\ Cardinality({i \in DOMAIN arrivals : arrivals[i].key = <<s, "DAILY_LIMIT">>})
              = Cardinality({pr \in hist.limit_hit : pr[2] = s})

\* C30: a pair is_processed only if search_log holds a row for it, and a
\* mark_processed whose write failed leaves a pair that was not processed
\* unprocessed.
C30_CacheWithinLog ==
    /\ \A person_id \in People, source \in SOURCES :
          is_processed(person_id, source) =>
              \E r \in search_log : r.person_id = person_id /\ r.source_name = source
    /\ (last_call.op = "mark_processed" /\ ~last_call.db_ok /\ ~last_call.was_processed) =>
          ~is_processed(last_call.pair[1], last_call.pair[2])

\* C30 witness: a mark_processed write has failed for a pair that was not
\* processed, while the cache holds another pair.
C30_Witness ==
    /\ last_call.op = "mark_processed" /\ ~last_call.db_ok /\ ~last_call.was_processed
    /\ cache # {}

====
